---- MODULE Spec2Model ----
(***************************************************************************)
(* The sharded LRU cache tier of the storage crate                         *)
(* (storage/src/cache_storage/mod.rs): ShardLruCache, the CacheStorage     *)
(* facade implementing InnerStore, and compose_key.                        *)
(*                                                                         *)
(* Byte strings (Vec<u8>, and a &str seen through as_bytes()) are          *)
(* sequences of small naturals.  Option<T> is a sequence of length at most *)
(* one: None is <<>> and Some(x) is <<x>>.  An lru::LruCache is a record   *)
(* [cap, list] whose list holds the entries from the most recently used    *)
(* (head) to the least recently used (tail).                               *)
(***************************************************************************)
EXTENDS Integers, Sequences, FiniteSets, TLC

\* ------------------------------------------------------------------ bounds

\* Largest per-shard capacity the model constructs a cache with.
MaxShardCap == 2

\* Longest WriteBatch handed to write_batch.
MaxBatchLen == 2

\* Number of threads calling the store concurrently.
NumThreads == 2

\* Number of calls each of these threads makes.
MaxCalls == 1

\* Longest WriteBatch of a thread where every thread may call write_batch.
MaxFairBatchLen == 1

\* ------------------------------------------------------- program constants

NUM_SHARD_BITS == 4

NUM_SHARDS == 2 ^ NUM_SHARD_BITS

\* ---------------------------------------------------------------- inputs

\* prefix_name arguments: "a" and "ab" as UTF-8 bytes.
Namespaces == {<<97>>, <<97, 98>>}

\* key arguments: "c" and "bc".
RawKeys == {<<99>>, <<98, 99>>}

\* value arguments.
Values == {<<1>>, <<2>>}

None == <<>>

Some(x) == <<x>>

\* WriteOp::Value(value) and WriteOp::Deletion.
WriteOps == {[tag |-> "Value", value |-> v] : v \in Values}
              \cup {[tag |-> "Deletion", value |-> <<>>]}

\* The rows of a WriteBatch: (key, write_op) pairs.
Rows == RawKeys \X WriteOps

Batches == UNION {[1..n -> Rows] : n \in 0..MaxBatchLen}

\* The total capacities handed to new_with_capacity: the smallest total that
\* gives every shard capacity n, for n up to MaxShardCap.
Capacities == {(n - 1) * NUM_SHARDS + 1 : n \in 1..MaxShardCap}

\* ----------------------------------------------------------- compose_key

\* compose_key gone wrong: the prefix is left out.
compose_key_DropsPrefix(prefix_name, source_key) == source_key

compose_key(prefix_name, source_key) == prefix_name \o source_key

CompKeys == {compose_key(ns, k) : ns \in Namespaces, k \in RawKeys}

\* ---------------------------------------------------------------- hashing

\* A u64 or u32 is the sequence of its bits, most significant first.
RECURSIVE BitsToNat(_)
BitsToNat(bits) ==
    IF bits = <<>> THEN 0
    ELSE 2 * BitsToNat(SubSeq(bits, 1, Len(bits) - 1)) + bits[Len(bits)]

\* The u64 whose upper 32 bits are ones, whose next NUM_SHARD_BITS bits spell
\* top, and whose remaining low bits all equal fill.
HashValue(top, fill) ==
    [i \in 1..64 |->
        IF i <= 32 THEN 1
        ELSE IF i <= 32 + NUM_SHARD_BITS
             THEN (top \div (2 ^ (32 + NUM_SHARD_BITS - i))) % 2
             ELSE fill]

\* The values hasher.finish() takes in the model, one for each shard: the
\* first is 0xFFFFFFFF0FFFFFFF, whose low 32 bits start with the shard bits
\* 0000, the last is 0xFFFFFFFFF0000000, whose low 32 bits start with 1111.
HashVals == [i \in 1..NUM_SHARDS |-> HashValue(i - 1, i % 2)]

\* `x as u32`: the low 32 bits of a u64.
as_u32(x) == SubSeq(x, 33, 64)

\* hash >> (32 - NUM_SHARD_BITS)
shard(hash) == BitsToNat(SubSeq(hash, 1, 32 - (32 - NUM_SHARD_BITS)))

VARIABLES
    caches,       \* ShardLruCache.caches: shard index -> LruCache
    metrics,      \* CacheStorage.metrics is Some(_)
    cache_items,  \* the metrics.cache_items gauge
    hasher,       \* DefaultHasher: key bytes -> the index in HashVals of
                  \* what hasher.finish() returns for them; never changes
    last,         \* history: the latest InnerStore call and what it returned
    pre,          \* history: caches as the latest call other than
                  \* write_batch found them
    accessed,     \* history: the composite keys stored now or in pre, by
                  \* latest access (get hit or put), the most recent first
    replayed,     \* history: the store that calling put or remove for each
                  \* row, one by one, makes of the store the latest
                  \* write_batch found
    threads,      \* thread -> the InnerStore call it is running and where it
                  \* is in it
    locks         \* shard index -> the thread holding that shard's Mutex, if any

vars == <<caches, metrics, cache_items, hasher, last, pre, accessed, replayed,
          threads, locks>>

\* key.hash(&mut hasher); hasher.finish()
finish(key) == HashVals[hasher[key]]

\* get_idx gone wrong: the shard also depends on mutable state, the gauge.
get_idx_ByGauge(key) == (shard(as_u32(finish(key))) + cache_items) % NUM_SHARDS

get_idx(key) == shard(as_u32(finish(key)))

\* ---------------------------------------------------------- lru::LruCache

Entry(k, v) == [key |-> k, val |-> v]

LruCache_new(cap) == [cap |-> cap, list |-> <<>>]

\* Position of key in the list, 0 when absent.
IndexOf(list, key) ==
    IF \E i \in 1..Len(list) : list[i].key = key
    THEN CHOOSE i \in 1..Len(list) : list[i].key = key
    ELSE 0

RemoveAt(list, i) == SubSeq(list, 1, i - 1) \o SubSeq(list, i + 1, Len(list))

LruCache_len(c) == Len(c.list)

LruCache_contains(c, key) == IndexOf(c.list, key) # 0

\* iter(): the entries from the most to the least recently used.
LruCache_iter(c) == c.list

\* put gone wrong: an existing key keeps its old value.
LruCache_put_KeepsOldValue(c, key, value) ==
    LET i == IndexOf(c.list, key) IN
    IF i # 0
    THEN [cache |-> [c EXCEPT !.list = <<c.list[i]>> \o RemoveAt(c.list, i)],
          ret   |-> Some(c.list[i].val)]
    ELSE LET kept == IF Len(c.list) = c.cap
                     THEN SubSeq(c.list, 1, Len(c.list) - 1)
                     ELSE c.list
         IN [cache |-> [c EXCEPT !.list = <<Entry(key, value)>> \o kept],
             ret   |-> None]

\* put gone wrong: a full cache drops nothing.
LruCache_put_NeverEvicts(c, key, value) ==
    LET i == IndexOf(c.list, key) IN
    IF i # 0
    THEN [cache |-> [c EXCEPT !.list = <<Entry(key, value)>> \o RemoveAt(c.list, i)],
          ret   |-> Some(c.list[i].val)]
    ELSE [cache |-> [c EXCEPT !.list = <<Entry(key, value)>> \o c.list],
          ret   |-> None]

\* put gone wrong: a full cache drops its most recently used entry.
LruCache_put_EvictsNewest(c, key, value) ==
    LET i == IndexOf(c.list, key) IN
    IF i # 0
    THEN [cache |-> [c EXCEPT !.list = <<Entry(key, value)>> \o RemoveAt(c.list, i)],
          ret   |-> Some(c.list[i].val)]
    ELSE LET kept == IF Len(c.list) = c.cap
                     THEN SubSeq(c.list, 2, Len(c.list))
                     ELSE c.list
         IN [cache |-> [c EXCEPT !.list = <<Entry(key, value)>> \o kept],
             ret   |-> None]

\* put gone wrong: a full cache drops its tail before the key is looked up.
LruCache_put_EvictsBeforeLookup(c, key, value) ==
    LET kept == IF Len(c.list) = c.cap
                THEN SubSeq(c.list, 1, Len(c.list) - 1)
                ELSE c.list
        i    == IndexOf(kept, key)
        old  == IndexOf(c.list, key)
    IN [cache |-> [c EXCEPT !.list = <<Entry(key, value)>> \o
                                       (IF i # 0 THEN RemoveAt(kept, i) ELSE kept)],
        ret   |-> IF old # 0 THEN Some(c.list[old].val) ELSE None]

\* put: an existing key gets the new value and moves to the head; a new key
\* first drops the tail when the cache is full, then enters at the head.
LruCache_put(c, key, value) ==
    LET i == IndexOf(c.list, key) IN
    IF i # 0
    THEN [cache |-> [c EXCEPT !.list = <<Entry(key, value)>> \o RemoveAt(c.list, i)],
          ret   |-> Some(c.list[i].val)]
    ELSE LET kept == IF Len(c.list) = c.cap
                     THEN SubSeq(c.list, 1, Len(c.list) - 1)
                     ELSE c.list
         IN [cache |-> [c EXCEPT !.list = <<Entry(key, value)>> \o kept],
             ret   |-> None]

\* get gone wrong: a hit leaves the entry where it is.
LruCache_get_NoPromotion(c, key) ==
    LET i == IndexOf(c.list, key) IN
    IF i # 0
    THEN [cache |-> c, ret |-> Some(c.list[i].val)]
    ELSE [cache |-> c, ret |-> None]

\* get gone wrong: a hit takes the entry out, as pop does.
LruCache_get_TakesEntry(c, key) ==
    LET i == IndexOf(c.list, key) IN
    IF i # 0
    THEN [cache |-> [c EXCEPT !.list = RemoveAt(c.list, i)],
          ret   |-> Some(c.list[i].val)]
    ELSE [cache |-> c, ret |-> None]

\* get: a hit moves the entry to the head.
LruCache_get(c, key) ==
    LET i == IndexOf(c.list, key) IN
    IF i # 0
    THEN [cache |-> [c EXCEPT !.list = <<c.list[i]>> \o RemoveAt(c.list, i)],
          ret   |-> Some(c.list[i].val)]
    ELSE [cache |-> c, ret |-> None]

\* pop gone wrong: the entry is returned and left in place.
LruCache_pop_LeavesEntry(c, key) ==
    LET i == IndexOf(c.list, key) IN
    IF i # 0
    THEN [cache |-> c, ret |-> Some(c.list[i].val)]
    ELSE [cache |-> c, ret |-> None]

\* pop: removes the entry when present.
LruCache_pop(c, key) ==
    LET i == IndexOf(c.list, key) IN
    IF i # 0
    THEN [cache |-> [c EXCEPT !.list = RemoveAt(c.list, i)],
          ret   |-> Some(c.list[i].val)]
    ELSE [cache |-> c, ret |-> None]

\* --------------------------------------------------------- ShardLruCache

\* new gone wrong: the division rounds down.
ShardLruCache_new_RoundsDown(cap) ==
    LET per_shard_cap == cap \div NUM_SHARDS
    IN [idx \in 0..(NUM_SHARDS - 1) |-> LruCache_new(per_shard_cap)]

ShardLruCache_new(cap) ==
    LET per_shard_cap == (cap + NUM_SHARDS - 1) \div NUM_SHARDS
    IN [idx \in 0..(NUM_SHARDS - 1) |-> LruCache_new(per_shard_cap)]

\* put gone wrong: the entry goes to the key's shard, but the room for it is
\* made in the mirror shard, which loses its least recently used entry.
ShardLruCache_put_EvictsElsewhere(cs, key, value) ==
    LET idx   == get_idx(key)
        other == NUM_SHARDS - 1 - idx
        r     == LruCache_put(cs[idx], key, value)
    IN [caches |-> [cs EXCEPT ![idx] = r.cache,
                              ![other] = [@ EXCEPT !.list =
                                             SubSeq(@, 1, Len(@) - 1)]],
        ret    |-> r.ret]

ShardLruCache_put(cs, key, value) ==
    LET idx == get_idx(key)
        r   == LruCache_put(cs[idx], key, value)
    IN [caches |-> [cs EXCEPT ![idx] = r.cache], ret |-> r.ret]

ShardLruCache_get(cs, key) ==
    LET idx == get_idx(key)
        r   == LruCache_get(cs[idx], key)
    IN [caches |-> [cs EXCEPT ![idx] = r.cache], ret |-> r.ret]

ShardLruCache_pop(cs, key) ==
    LET idx == get_idx(key)
        r   == LruCache_pop(cs[idx], key)
    IN [caches |-> [cs EXCEPT ![idx] = r.cache], ret |-> r.ret]

\* fold(0, |x, obj| obj.lock().len() + x) over the shards 0..n-1.
RECURSIVE LenFold(_, _)
LenFold(cs, n) ==
    IF n = 0 THEN 0 ELSE LruCache_len(cs[n - 1]) + LenFold(cs, n - 1)

\* len gone wrong: the last shard is left out of the sum.
ShardLruCache_len_SkipsLastShard(cs) == LenFold(cs, NUM_SHARDS - 1)

ShardLruCache_len(cs) == LenFold(cs, NUM_SHARDS)

ShardLruCache_contains(cs, key) == LruCache_contains(cs[get_idx(key)], key)

\* The keys of the shards 0..n-1, shard by shard, each in iter() order.
RECURSIVE KeysFold(_, _)
KeysFold(cs, n) ==
    IF n = 0 THEN <<>>
    ELSE KeysFold(cs, n - 1)
           \o [i \in 1..Len(LruCache_iter(cs[n - 1])) |-> LruCache_iter(cs[n - 1])[i].key]

ShardLruCache_keys(cs) == KeysFold(cs, NUM_SHARDS)

\* ---------------------------------------------------------- CacheStorage

Ok(x) == [ok |-> TRUE, val |-> x]

\* The unit value ().
Unit == <<>>

\* record_metrics("cache", prefix_name, method, metrics): the labels under
\* which the timing recorder is entered by one .call(f); f's own result is
\* what .call returns.  Every InnerStore call below returns, as recorded, the
\* labels it entered the timing recorder under, in order.
record_metrics(method) == IF metrics THEN <<method>> ELSE <<>>

\* The store as one call sees it: the shards and the item-count gauge.
Store(cs, gauge) == [caches |-> cs, cache_items |-> gauge]

CacheStorage_get(st, prefix_name, key) ==
    LET r == ShardLruCache_get(st.caches, compose_key(prefix_name, key))
    IN [caches |-> r.caches, cache_items |-> st.cache_items, ret |-> Ok(r.ret),
        recorded |-> record_metrics("get")]

\* put gone wrong: the call is wrapped in the timing recorder, like get.
CacheStorage_put_Recorded(st, prefix_name, key, value) ==
    LET r == ShardLruCache_put(st.caches, compose_key(prefix_name, key), value)
    IN [caches      |-> r.caches,
        cache_items |-> IF metrics THEN ShardLruCache_len(r.caches)
                                   ELSE st.cache_items,
        ret         |-> Ok(Unit),
        recorded    |-> record_metrics("put")]

CacheStorage_put(st, prefix_name, key, value) ==
    LET r == ShardLruCache_put(st.caches, compose_key(prefix_name, key), value)
    IN [caches      |-> r.caches,
        cache_items |-> IF metrics THEN ShardLruCache_len(r.caches)
                                   ELSE st.cache_items,
        ret         |-> Ok(Unit),
        recorded    |-> <<>>]

\* contains_key gone wrong: the lookup is a get, which promotes on a hit.
CacheStorage_contains_key_ViaGet(st, prefix_name, key) ==
    LET r == ShardLruCache_get(st.caches, compose_key(prefix_name, key))
    IN [caches |-> r.caches, cache_items |-> st.cache_items, ret |-> Ok(r.ret # None),
        recorded |-> record_metrics("contains_key")]

CacheStorage_contains_key(st, prefix_name, key) ==
    [caches      |-> st.caches,
     cache_items |-> st.cache_items,
     ret         |-> Ok(ShardLruCache_contains(st.caches, compose_key(prefix_name, key))),
     recorded    |-> record_metrics("contains_key")]

CacheStorage_remove(st, prefix_name, key) ==
    LET r == ShardLruCache_pop(st.caches, compose_key(prefix_name, key))
    IN [caches      |-> r.caches,
        cache_items |-> IF metrics THEN ShardLruCache_len(r.caches)
                                   ELSE st.cache_items,
        ret         |-> Ok(Unit),
        recorded    |-> <<>>]

\* for (key, write_op) in &batch.rows { ... ? }, from row i on: a row whose
\* put or remove returns Err ends the loop with that error.
RECURSIVE WriteBatchLoop(_, _, _, _)
WriteBatchLoop(st, prefix_name, rows, i) ==
    IF i > Len(rows)
    THEN [caches |-> st.caches, cache_items |-> st.cache_items, ret |-> Ok(Unit),
          recorded |-> <<>>]
    ELSE LET key      == rows[i][1]
             write_op == rows[i][2]
             r == IF write_op.tag = "Value"
                  THEN CacheStorage_put(st, prefix_name, key, write_op.value)
                  ELSE CacheStorage_remove(st, prefix_name, key)
         IN IF ~r.ret.ok
            THEN r
            ELSE [WriteBatchLoop(Store(r.caches, r.cache_items), prefix_name, rows, i + 1)
                    EXCEPT !.recorded = r.recorded \o @]

\* record_metrics(.., "write_batch", ..).call(|| { the loop }): what the loop
\* r did, inside one entry of the timing recorder.
InRecorder(method, r) == [r EXCEPT !.recorded = record_metrics(method) \o @]

\* write_batch gone wrong: the rows are taken last to first.
CacheStorage_write_batch_LastRowFirst(st, prefix_name, batch) ==
    InRecorder("write_batch",
               WriteBatchLoop(st, prefix_name,
                              [i \in 1..Len(batch) |-> batch[Len(batch) + 1 - i]], 1))

CacheStorage_write_batch(st, prefix_name, batch) ==
    InRecorder("write_batch", WriteBatchLoop(st, prefix_name, batch, 1))

CacheStorage_get_len(st) == Ok(ShardLruCache_len(st.caches))

CacheStorage_keys(st) == Ok(ShardLruCache_keys(st.caches))

\* ---------------------------------------------------------------- history

\* One InnerStore call: its name, its arguments, its result and the labels it
\* entered the timing recorder under.  A write_batch call is recorded by name
\* and result alone.
Call(op, ns, key, value, ret, recorded) ==
    [op |-> op, ns |-> ns, key |-> key, value |-> value,
     ret |-> ret, recorded |-> recorded]

\* The keys of one shard's entries.
ShardKeys(c) == {c.list[i].key : i \in 1..Len(c.list)}

\* The composite keys stored anywhere in cs.
StoredKeys(cs) == UNION {ShardKeys(cs[idx]) : idx \in DOMAIN cs}

\* key becomes the most recently accessed composite key.
Touch(log, key) == <<key>> \o SelectSeq(log, LAMBDA k : k # key)

\* The accesses a batch makes: one per Value row, in row order.
RECURSIVE TouchBatch(_, _, _, _)
TouchBatch(log, prefix_name, rows, i) ==
    IF i > Len(rows) THEN log
    ELSE TouchBatch(IF rows[i][2].tag = "Value"
                    THEN Touch(log, compose_key(prefix_name, rows[i][1]))
                    ELSE log,
                    prefix_name, rows, i + 1)

\* The access log, kept to the keys that are stored in cs or in before.
Stored(log, cs, before) ==
    LET keep == StoredKeys(cs) \cup StoredKeys(before)
    IN SelectSeq(log, LAMBDA k : k \in keep)

\* put(ns, k, v) for a Value row, remove(ns, k) for a Deletion row.
CallRow(st, prefix_name, row) ==
    LET r == IF row[2].tag = "Value"
             THEN CacheStorage_put(st, prefix_name, row[1], row[2].value)
             ELSE CacheStorage_remove(st, prefix_name, row[1])
    IN Store(r.caches, r.cache_items)

\* The rows called one by one, in listed order.
RECURSIVE OneByOne(_, _, _)
OneByOne(st, prefix_name, rows) ==
    IF rows = <<>> THEN st
    ELSE CallRow(OneByOne(st, prefix_name, SubSeq(rows, 1, Len(rows) - 1)),
                 prefix_name, rows[Len(rows)])

\* ---------------------------------------------------------------- threads

\* The threads that call the store at the same time.
Threads == 1..NumThreads

\* The Result<T> of an InnerStore call, with the type T the call declares.
Result(op, val) ==
    <<CASE op = "get" -> "Option<Vec<u8>>"
        [] op = "contains_key" -> "bool"
        [] op = "get_len" -> "u64"
        [] op = "keys" -> "Vec<Vec<u8>>"
        [] OTHER -> "()",
      Ok(val)>>

\* What a thread is doing: the InnerStore call it is in, or was in last (op),
\* with its arguments (a WriteBatch is its rows), the row of the batch it is
\* at, the shard its len() or keys() loop is at with the loop's accumulator
\* (x of the fold, all_keys), the place it has reached (pc), the result of
\* its latest finished call, and the number of calls it has finished.
\* applied is history: the calls on a locked shard this call has made so far.
Frame(op, ns, key, value, rows, pc) ==
    [op |-> op, ns |-> ns, key |-> key, value |-> value, rows |-> rows,
     row |-> 1, i |-> 0, x |-> 0, all_keys |-> <<>>, pc |-> pc,
     ret |-> Result(op, Unit), calls |-> 0, applied |-> <<>>]

\* A thread that has called nothing yet.
NoCall == Frame("none", <<>>, <<>>, <<>>, <<>>, "idle")

\* ------------------------------------------------------------------ state

\* Every way DefaultHasher can split the keys over the first and the last
\* shard, up to which of the two shards is which.
Hashers ==
    {h \in [CompKeys -> {1, NUM_SHARDS}] :
        Cardinality({k \in CompKeys : h[k] = NUM_SHARDS}) <= 1}

Init ==
    /\ \E cap \in Capacities : caches = ShardLruCache_new(cap)
    /\ metrics \in BOOLEAN
    /\ cache_items = 0
    /\ hasher \in Hashers
    /\ last = Call("new", <<>>, <<>>, <<>>, Ok(Unit), <<>>)
    /\ pre = caches
    /\ accessed = <<>>
    /\ replayed = Store(caches, cache_items)
    /\ threads = [t \in Threads |-> NoCall]
    /\ locks = [idx \in 0..(NUM_SHARDS - 1) |-> None]

Get(ns, key) ==
    LET r == CacheStorage_get(Store(caches, cache_items), ns, key) IN
    /\ caches' = r.caches
    /\ cache_items' = r.cache_items
    /\ last' = Call("get", ns, key, <<>>, r.ret, r.recorded)
    /\ pre' = caches
    /\ accessed' = Stored(IF r.ret.val # None
                          THEN Touch(accessed, compose_key(ns, key))
                          ELSE accessed, r.caches, caches)
    /\ UNCHANGED <<metrics, hasher, replayed, threads, locks>>

Put(ns, key, value) ==
    LET r == CacheStorage_put(Store(caches, cache_items), ns, key, value) IN
    /\ caches' = r.caches
    /\ cache_items' = r.cache_items
    /\ last' = Call("put", ns, key, value, r.ret, r.recorded)
    /\ pre' = caches
    /\ accessed' = Stored(Touch(accessed, compose_key(ns, key)), r.caches, caches)
    /\ UNCHANGED <<metrics, hasher, replayed, threads, locks>>

ContainsKey(ns, key) ==
    LET r == CacheStorage_contains_key(Store(caches, cache_items), ns, key) IN
    /\ caches' = r.caches
    /\ cache_items' = r.cache_items
    /\ last' = Call("contains_key", ns, key, <<>>, r.ret, r.recorded)
    /\ pre' = caches
    /\ accessed' = Stored(accessed, r.caches, caches)
    /\ UNCHANGED <<metrics, hasher, replayed, threads, locks>>

Remove(ns, key) ==
    LET r == CacheStorage_remove(Store(caches, cache_items), ns, key) IN
    /\ caches' = r.caches
    /\ cache_items' = r.cache_items
    /\ last' = Call("remove", ns, key, <<>>, r.ret, r.recorded)
    /\ pre' = caches
    /\ accessed' = Stored(accessed, r.caches, caches)
    /\ UNCHANGED <<metrics, hasher, replayed, threads, locks>>

WriteBatch(ns, batch) ==
    LET r == CacheStorage_write_batch(Store(caches, cache_items), ns, batch) IN
    /\ caches' = r.caches
    /\ cache_items' = r.cache_items
    /\ last' = Call("write_batch", <<>>, <<>>, <<>>, r.ret, r.recorded)
    /\ accessed' = Stored(TouchBatch(accessed, ns, batch, 1), r.caches, pre)
    /\ replayed' = OneByOne(Store(caches, cache_items), ns, batch)
    /\ UNCHANGED <<metrics, hasher, pre, threads, locks>>

GetLen ==
    /\ last' = Call("get_len", <<>>, <<>>, <<>>,
                    CacheStorage_get_len(Store(caches, cache_items)), <<>>)
    /\ pre' = caches
    /\ accessed' = Stored(accessed, caches, caches)
    /\ UNCHANGED <<caches, cache_items, metrics, hasher, replayed, threads, locks>>

Keys ==
    /\ last' = Call("keys", <<>>, <<>>, <<>>,
                    CacheStorage_keys(Store(caches, cache_items)), <<>>)
    /\ pre' = caches
    /\ accessed' = Stored(accessed, caches, caches)
    /\ UNCHANGED <<caches, cache_items, metrics, hasher, replayed, threads, locks>>

\* The single-key and whole-cache calls, in any order.
Next ==
    \/ \E ns \in Namespaces, key \in RawKeys : Get(ns, key)
    \/ \E ns \in Namespaces, key \in RawKeys, value \in Values : Put(ns, key, value)
    \/ \E ns \in Namespaces, key \in RawKeys : ContainsKey(ns, key)
    \/ \E ns \in Namespaces, key \in RawKeys : Remove(ns, key)
    \/ GetLen
    \/ Keys

Spec == Init /\ [][Next]_vars

\* Batches, in any order.
NextBatch == \E ns \in Namespaces, batch \in Batches : WriteBatch(ns, batch)

SpecBatch == Init /\ [][NextBatch]_vars

\* A caller that spreads its keys over all the shards: one namespace, one
\* key for each shard, one value.
SpreadNamespace == <<97>>

SpreadKeys == {<<n>> : n \in 0..(NUM_SHARDS - 1)}

SpreadValue == <<1>>

\* DefaultHasher sending the key of byte n to the hash value of shard n.
SpreadHasher ==
    [k \in {compose_key(SpreadNamespace, key) : key \in SpreadKeys} |-> k[Len(k)] + 1]

\* The spread keys that are stored.
SpreadStored ==
    {key \in SpreadKeys : compose_key(SpreadNamespace, key) \in StoredKeys(caches)}

InitSpread ==
    /\ \E cap \in Capacities \cup {NUM_SHARDS} : caches = ShardLruCache_new(cap)
    /\ metrics \in BOOLEAN
    /\ cache_items = 0
    /\ hasher = SpreadHasher
    /\ last = Call("new", <<>>, <<>>, <<>>, Ok(Unit), <<>>)
    /\ pre = caches
    /\ accessed = <<>>
    /\ replayed = Store(caches, cache_items)
    /\ threads = [t \in Threads |-> NoCall]
    /\ locks = [idx \in 0..(NUM_SHARDS - 1) |-> None]

\* The caller puts its keys in ascending order, removes the greatest one it
\* has stored, and asks for any key, the count and the key list at any time.
NextSpread ==
    \/ \E key \in SpreadKeys \ SpreadStored :
          /\ \A other \in SpreadStored : other[1] < key[1]
          /\ \A other \in SpreadKeys : other[1] < key[1] => other \in SpreadStored
          /\ Put(SpreadNamespace, key, SpreadValue)
    \/ \E key \in SpreadStored :
          /\ \A other \in SpreadStored : other[1] <= key[1]
          /\ Remove(SpreadNamespace, key)
    \/ \E key \in SpreadKeys : ContainsKey(SpreadNamespace, key)
    \/ GetLen
    \/ Keys

SpecSpread == InitSpread /\ [][NextSpread]_vars

\* ------------------------------------------------- the calls, step by step

\* BatchRow gone wrong: the rows are visited from the last to the first.
BatchRow_Reversed(f) == f.rows[Len(f.rows) + 1 - f.row]

\* for (key, write_op) in &batch.rows: the row the loop of write_batch is at.
BatchRow(f) == f.rows[f.row]

\* The put or remove a thread is in: its own, or that of the batch row it is at.
InnerOp(f) ==
    IF f.op = "write_batch"
    THEN (IF BatchRow(f)[2].tag = "Value" THEN "put" ELSE "remove")
    ELSE f.op

InnerKey(f) == IF f.op = "write_batch" THEN BatchRow(f)[1] ELSE f.key

InnerValue(f) == IF f.op = "write_batch" THEN BatchRow(f)[2].value ELSE f.value

\* The composite key of the shard call a thread is in.
Composite(f) == compose_key(f.ns, InnerKey(f))

\* The call returns ret to its caller; its arguments and locals are gone.
Returned(f, ret) ==
    [NoCall EXCEPT !.op = f.op, !.ret = ret, !.calls = f.calls + 1]

\* put or remove has returned Ok(()): to the caller, or to write_batch, which
\* goes on to its next row or, after the last, leaves the recorder's closure.
AfterMutation(f) ==
    IF f.op = "write_batch"
    THEN IF f.row < Len(f.rows)
         THEN [f EXCEPT !.row = @ + 1, !.pc = "lock", !.i = 0, !.x = 0]
         ELSE [f EXCEPT !.pc = "observe", !.ret = Result(f.op, Unit),
                        !.i = 0, !.x = 0]
    ELSE Returned(f, Result(f.op, Unit))

\* The MutexGuard of shard idx is taken by thread t (lock() returns).
Locking(t, idx) == [locks EXCEPT ![idx] = Some(t)]

\* Unlocked gone wrong: the guard outlives the statement that took it.
Unlocked_GuardKept(idx) == locks

\* The MutexGuard of shard idx is dropped, at the end of the statement that
\* took it.
Unlocked(idx) == [locks EXCEPT ![idx] = None]

\* A thread that is idle and has calls left begins the call f0.
Invoke(t, f0) ==
    /\ threads[t].pc = "idle"
    /\ threads[t].calls < MaxCalls
    /\ threads' = [threads EXCEPT ![t] = [f0 EXCEPT !.calls = threads[t].calls,
                                                   !.ret = threads[t].ret]]
    /\ UNCHANGED <<caches, metrics, cache_items, hasher, last, pre, accessed,
                   replayed, locks>>

CallGet(t, ns, key) == Invoke(t, Frame("get", ns, key, <<>>, <<>>, "record"))

CallPut(t, ns, key, value) == Invoke(t, Frame("put", ns, key, value, <<>>, "lock"))

CallContainsKey(t, ns, key) ==
    Invoke(t, Frame("contains_key", ns, key, <<>>, <<>>, "record"))

CallRemove(t, ns, key) == Invoke(t, Frame("remove", ns, key, <<>>, <<>>, "lock"))

CallWriteBatch(t, ns, batch) ==
    Invoke(t, Frame("write_batch", ns, <<>>, <<>>, batch, "record"))

CallGetLen(t) == Invoke(t, Frame("get_len", <<>>, <<>>, <<>>, <<>>, "len_lock"))

CallKeys(t) == Invoke(t, Frame("keys", <<>>, <<>>, <<>>, <<>>, "keys_lock"))

\* record_metrics(..).call(f) is entered: the recorder starts its timing and
\* calls the closure f, the body of get, contains_key or write_batch.
RecordEnter(t) ==
    LET f == threads[t] IN
    /\ f.pc = "record"
    /\ threads' = [threads EXCEPT ![t] =
                      IF f.op = "write_batch" /\ f.rows = <<>>
                      THEN [f EXCEPT !.pc = "observe", !.ret = Result(f.op, Unit)]
                      ELSE [f EXCEPT !.pc = "lock"]]
    /\ UNCHANGED <<caches, metrics, cache_items, hasher, last, pre, accessed,
                   replayed, locks>>

\* self.caches[idx].lock() in ShardLruCache::put, get, pop and contains: the
\* thread waits until the shard's Mutex is free and takes it.
Lock(t) ==
    LET f   == threads[t]
        idx == get_idx(Composite(f))
    IN /\ f.pc = "lock"
       /\ locks[idx] = None
       /\ locks' = Locking(t, idx)
       /\ threads' = [threads EXCEPT ![t] = [f EXCEPT !.pc = "locked"]]
       /\ UNCHANGED <<caches, metrics, cache_items, hasher, last, pre, accessed,
                      replayed>>

\* .put(key, value), .get(key).cloned(), .pop(key) or .contains(key) on the
\* locked LruCache; the guard is dropped as the statement ends.  get and
\* contains hand their result to the recorder's closure; put and remove go
\* on in CacheStorage::put / remove: to self.cache.len() with a recorder
\* configured, to the return without.
Locked(t) ==
    LET f   == threads[t]
        ck  == Composite(f)
        idx == get_idx(ck)
        c   == caches[idx]
        r   == CASE InnerOp(f) = "put" -> LruCache_put(c, ck, InnerValue(f))
                 [] InnerOp(f) = "get" -> LruCache_get(c, ck)
                 [] InnerOp(f) = "remove" -> LruCache_pop(c, ck)
                 [] InnerOp(f) = "contains_key" ->
                        [cache |-> c, ret |-> LruCache_contains(c, ck)]
        g   == [threads[t] EXCEPT !.applied =
                   Append(@, [op |-> InnerOp(f), key |-> ck,
                              value |-> InnerValue(f)])]
    IN /\ f.pc = "locked"
       /\ caches' = [caches EXCEPT ![idx] = r.cache]
       /\ locks' = Unlocked(idx)
       /\ threads' = [threads EXCEPT ![t] =
                         IF InnerOp(f) \in {"get", "contains_key"}
                         THEN [g EXCEPT !.pc = "observe", !.ret = Result(f.op, r.ret)]
                         ELSE IF metrics
                              THEN [g EXCEPT !.pc = "len_lock", !.i = 0, !.x = 0]
                              ELSE AfterMutation(g)]
       /\ UNCHANGED <<metrics, cache_items, hasher, last, pre, accessed, replayed>>

\* obj.lock() in the fold of ShardLruCache::len, at shard f.i.
LenLock(t) ==
    LET f == threads[t] IN
    /\ f.pc = "len_lock"
    /\ locks[f.i] = None
    /\ locks' = Locking(t, f.i)
    /\ threads' = [threads EXCEPT ![t] = [f EXCEPT !.pc = "len_locked"]]
    /\ UNCHANGED <<caches, metrics, cache_items, hasher, last, pre, accessed,
                   replayed>>

\* .len() + x on the locked shard; the guard is dropped as the closure of
\* the fold returns.  After the last shard the sum goes to get_len's caller,
\* or to metrics.cache_items.set in put and remove.
LenLocked(t) ==
    LET f == threads[t]
        x == LruCache_len(caches[f.i]) + f.x
    IN /\ f.pc = "len_locked"
       /\ locks' = Unlocked(f.i)
       /\ threads' = [threads EXCEPT ![t] =
                         IF f.i + 1 < NUM_SHARDS
                         THEN [f EXCEPT !.pc = "len_lock", !.i = @ + 1, !.x = x]
                         ELSE IF f.op = "get_len"
                              THEN Returned(f, Result(f.op, x))
                              ELSE [f EXCEPT !.pc = "set", !.x = x]]
       /\ UNCHANGED <<caches, metrics, cache_items, hasher, last, pre, accessed,
                      replayed>>

\* metrics.cache_items.set(self.cache.len() as u64), the length being the
\* one the fold has returned; then put or remove returns Ok(()).
SetGauge(t) ==
    LET f == threads[t] IN
    /\ f.pc = "set"
    /\ cache_items' = f.x
    /\ threads' = [threads EXCEPT ![t] = AfterMutation(f)]
    /\ UNCHANGED <<caches, metrics, hasher, last, pre, accessed, replayed, locks>>

\* cache.lock() in the loop of ShardLruCache::keys, at shard f.i.
KeysLock(t) ==
    LET f == threads[t] IN
    /\ f.pc = "keys_lock"
    /\ locks[f.i] = None
    /\ locks' = Locking(t, f.i)
    /\ threads' = [threads EXCEPT ![t] = [f EXCEPT !.pc = "keys_locked"]]
    /\ UNCHANGED <<caches, metrics, cache_items, hasher, last, pre, accessed,
                   replayed>>

\* for (key, _) in cache.lock().iter() { all_keys.push(key.to_vec()) }: the
\* guard lives for the inner loop and is dropped before the next shard.
KeysLocked(t) ==
    LET f        == threads[t]
        entries  == LruCache_iter(caches[f.i])
        all_keys == f.all_keys \o [n \in 1..Len(entries) |-> entries[n].key]
    IN /\ f.pc = "keys_locked"
       /\ locks' = Unlocked(f.i)
       /\ threads' = [threads EXCEPT ![t] =
                         IF f.i + 1 < NUM_SHARDS
                         THEN [f EXCEPT !.pc = "keys_lock", !.i = @ + 1,
                                        !.all_keys = all_keys]
                         ELSE Returned(f, Result(f.op, all_keys))]
       /\ UNCHANGED <<caches, metrics, cache_items, hasher, last, pre, accessed,
                      replayed>>

\* The closure has returned: the recorder records the call under its label
\* and hands the closure's result to the caller.
Observe(t) ==
    LET f == threads[t] IN
    /\ f.pc = "observe"
    /\ threads' = [threads EXCEPT ![t] = Returned(f, f.ret)]
    /\ UNCHANGED <<caches, metrics, cache_items, hasher, last, pre, accessed,
                   replayed, locks>>

\* One step of a call in progress.
Step(t) ==
    \/ RecordEnter(t)
    \/ Lock(t)
    \/ Locked(t)
    \/ LenLock(t)
    \/ LenLocked(t)
    \/ SetGauge(t)
    \/ KeysLock(t)
    \/ KeysLocked(t)
    \/ Observe(t)

\* ------------------------------------------------------ concurrent callers

\* The threads share one namespace and the two keys; each writes a value of
\* its own, so that a stored value tells which thread wrote it.
ThreadNamespace == <<97>>

ThreadValue(t) == <<t>>

ThreadRows(t) ==
    RawKeys \X {[tag |-> "Value", value |-> ThreadValue(t)],
                [tag |-> "Deletion", value |-> <<>>]}

\* The batches of thread t of at most n rows.
ThreadBatches(t, n) == UNION {[1..m -> ThreadRows(t)] : m \in 0..n}

\* DefaultHasher sending the two composite keys of the threads to one shard,
\* or the second of them to another.
ThreadHashers ==
    {h \in Hashers : \A k \in CompKeys :
        h[k] = NUM_SHARDS => k = compose_key(ThreadNamespace, <<98, 99>>)}

\* new_with_capacity(NUM_SHARDS, metrics): every shard holds one entry.
InitThreads ==
    /\ caches = ShardLruCache_new(NUM_SHARDS)
    /\ metrics \in BOOLEAN
    /\ cache_items = 0
    /\ hasher \in ThreadHashers
    /\ last = Call("new", <<>>, <<>>, <<>>, Ok(Unit), <<>>)
    /\ pre = caches
    /\ accessed = <<>>
    /\ replayed = Store(caches, cache_items)
    /\ threads = [t \in Threads |-> NoCall]
    /\ locks = [idx \in 0..(NUM_SHARDS - 1) |-> None]

\* Thread t begins a call on one key, or on the whole cache.
CallSingle(t) ==
    \/ \E key \in RawKeys : CallGet(t, ThreadNamespace, key)
    \/ \E key \in RawKeys : CallPut(t, ThreadNamespace, key, ThreadValue(t))
    \/ \E key \in RawKeys : CallContainsKey(t, ThreadNamespace, key)
    \/ \E key \in RawKeys : CallRemove(t, ThreadNamespace, key)
    \/ CallGetLen(t)
    \/ CallKeys(t)

\* Thread 1 writes batches of up to MaxBatchLen rows; every thread makes the
\* other calls; the steps of the calls in progress interleave freely.
NextThreads ==
    \/ \E t \in Threads : Step(t)
    \/ \E t \in Threads : CallSingle(t)
    \/ \E batch \in ThreadBatches(1, MaxBatchLen) :
          CallWriteBatch(1, ThreadNamespace, batch)

SpecThreads == InitThreads /\ [][NextThreads]_vars

\* Every thread makes every call, write_batch with up to MaxFairBatchLen rows.
NextFair ==
    \/ \E t \in Threads : Step(t)
    \/ \E t \in Threads : CallSingle(t)
    \/ \E t \in Threads : \E batch \in ThreadBatches(t, MaxFairBatchLen) :
          CallWriteBatch(t, ThreadNamespace, batch)

\* A thread at lock() of a shard.
Acquire(t) == Lock(t) \/ LenLock(t) \/ KeysLock(t)

\* A thread at any other place of its call.
Proceed(t) ==
    \/ RecordEnter(t)
    \/ Locked(t)
    \/ LenLocked(t)
    \/ SetGauge(t)
    \/ KeysLocked(t)
    \/ Observe(t)

\* Every thread in a call keeps running, and a thread at lock() gets the
\* Mutex if the Mutex is free again and again: lock acquisition is fair.
Fairness == \A t \in Threads : WF_vars(Proceed(t)) /\ SF_vars(Acquire(t))

SpecFair == InitThreads /\ [][NextFair]_vars /\ Fairness

\* ------------------------------------------------------------------ claims

\* The store as it is now.
Now == Store(caches, cache_items)

\* The composite key and the shard the latest single-key call addressed.
LastKey == compose_key(last.ns, last.key)

LastIdx == get_idx(LastKey)

SingleKeyCall == last.op \in {"get", "put", "contains_key", "remove"}

\* The value stored in cs under the composite key ck, whichever shard holds it.
ValueOf(cs, ck) ==
    LET hits == {e \in UNION {{cs[idx].list[i] : i \in 1..Len(cs[idx].list)} :
                                idx \in DOMAIN cs} : e.key = ck}
    IN IF hits = {} THEN None ELSE Some((CHOOSE e \in hits : TRUE).val)

\* The latest call was a put of a new key that found its shard full.
PutFoundShardFull ==
    /\ last.op = "put"
    /\ LastKey \notin ShardKeys(pre[LastIdx])
    /\ Len(pre[LastIdx].list) = pre[LastIdx].cap

\* C1: put(ns, key, value) immediately followed by get(ns, key) returns
\* Some(value), from every reachable state.
C1_PutThenGet ==
    last.op = "put" =>
        CacheStorage_get(Now, last.ns, last.key).ret = Ok(Some(last.value))

\* C1 witness: a put that had to evict, or that overwrote another value, has
\* acted, and the get that follows returns its value.
C1_Witness ==
    /\ last.op = "put"
    /\ \/ PutFoundShardFull
       \/ ValueOf(pre, LastKey) \notin {None, Some(last.value)}
    /\ CacheStorage_get(Now, last.ns, last.key).ret = Ok(Some(last.value))

\* C2: two (namespace, key) pairs have equal composite keys only if they are
\* the same pair: the composite key a call addresses is that of no other pair.
C2_ComposeKeyInjective ==
    SingleKeyCall =>
        \A ns \in Namespaces, key \in RawKeys :
            compose_key(ns, key) = LastKey => (ns = last.ns /\ key = last.key)

\* After put(a, k, v1) has acted, the results of get(a, k) and get(b, k) that
\* follow a put(b, k, v2).
C3_After(b, v2) ==
    LET s1 == CacheStorage_put(Now, b, last.key, v2)
        g1 == CacheStorage_get(Store(s1.caches, s1.cache_items), last.ns, last.key)
        g2 == CacheStorage_get(Store(g1.caches, g1.cache_items), b, last.key)
    IN [a |-> g1.ret, b |-> g2.ret]

\* The two composite keys share a shard that holds one entry only.
C3_Crowded(b) ==
    /\ get_idx(compose_key(b, last.key)) = LastIdx
    /\ caches[LastIdx].cap = 1

\* C3 as claimed: put(a, k, v1); put(b, k, v2) with a # b is followed by
\* get(a, k) = Some(v1) and get(b, k) = Some(v2).
C3_NamespaceIsolation ==
    last.op = "put" =>
        \A b \in Namespaces \ {last.ns}, v2 \in Values :
            /\ C3_After(b, v2).a = Ok(Some(last.value))
            /\ C3_After(b, v2).b = Ok(Some(v2))

\* C3 as amended: get(b, k) = Some(v2), and get(a, k) = Some(v1) unless the
\* two composite keys route to one shard of capacity 1, where the second put
\* evicts the first entry and get(a, k) = None.
C3_NamespaceIsolationAmended ==
    last.op = "put" =>
        \A b \in Namespaces \ {last.ns}, v2 \in Values :
            /\ C3_After(b, v2).b = Ok(Some(v2))
            /\ C3_After(b, v2).a = IF C3_Crowded(b) THEN Ok(None)
                                                      ELSE Ok(Some(last.value))

\* C3 witness: put(a, k, v1) has acted, the two composite keys share a shard
\* with room for both, and a different value written under the other
\* namespace leaves the first one readable.
C3_Witness ==
    /\ last.op = "put"
    /\ \E b \in Namespaces \ {last.ns}, v2 \in Values \ {last.value} :
          /\ get_idx(compose_key(b, last.key)) = LastIdx
          /\ caches[LastIdx].cap = 2
          /\ C3_After(b, v2).a = Ok(Some(last.value))
          /\ C3_After(b, v2).b = Ok(Some(v2))

\* C4: no shard ever holds more entries than its capacity, and the capacity
\* is the one the shard was built with.
C4_ShardWithinCapacity ==
    \A idx \in DOMAIN caches :
        /\ LruCache_len(caches[idx]) <= caches[idx].cap
        /\ caches[idx].cap = pre[idx].cap

\* C4 witness: a put of a new key into a full shard has acted and the shard
\* is at capacity.
C4_Witness ==
    /\ PutFoundShardFull
    /\ LruCache_len(caches[LastIdx]) = caches[LastIdx].cap

\* The (namespace, key) pairs a call can name.
Pairs == Namespaces \X RawKeys

\* put(p, v) and get(p) on a store, for a pair p.
PutTo(st, p, v) ==
    LET r == CacheStorage_put(st, p[1], p[2], v) IN Store(r.caches, r.cache_items)

GetOf(st, p) == CacheStorage_get(st, p[1], p[2])

AfterGet(st, p) == Store(GetOf(st, p).caches, GetOf(st, p).cache_items)

\* The place of key in the access log, the most recent access first; past
\* the end when the log does not hold it.
AccessRank(key) ==
    IF \E i \in 1..Len(accessed) : accessed[i] = key
    THEN CHOOSE i \in 1..Len(accessed) : accessed[i] = key
    ELSE Len(accessed) + 1

\* The keys among keys whose latest access is the oldest.
OldestAccessed(keys) ==
    {k \in keys : \A j \in keys : AccessRank(j) <= AccessRank(k)}

\* put(A, v1); put(B, v2); put(C, v3) into an empty shard of capacity 2, then
\* get(A), get(B), get(C).
C5_Scenario(A, B, C, v1, v2, v3) ==
    LET s3 == PutTo(PutTo(PutTo(Now, A, v1), B, v2), C, v3)
        sA == AfterGet(s3, A)
        sB == AfterGet(sA, B)
    IN /\ GetOf(s3, A).ret = Ok(None)
       /\ GetOf(sA, B).ret = Ok(Some(v2))
       /\ GetOf(sB, C).ret = Ok(Some(v3))

\* C5: a put of a new key into a full shard evicts exactly one entry of that
\* shard, the one whose latest access (get hit or put) is the oldest, and
\* keeps every other entry; with capacity 2, put(A); put(B); put(C) into one
\* empty shard leaves get(A) = None, get(B) = Some(2), get(C) = Some(3).
C5_EvictsLeastRecentlyUsed ==
    /\ PutFoundShardFull =>
          LET before == ShardKeys(pre[LastIdx])
              after  == ShardKeys(caches[LastIdx])
          IN /\ Cardinality(before \ after) = 1
             /\ before \ after = OldestAccessed(before)
             /\ after = (before \ OldestAccessed(before)) \cup {LastKey}
             /\ \A k \in before \cap after : ValueOf(caches, k) = ValueOf(pre, k)
             /\ ValueOf(caches, LastKey) = Some(last.value)
             /\ \A idx \in DOMAIN caches \ {LastIdx} : caches[idx] = pre[idx]
    /\ last.op = "new" =>
          \A A \in Pairs, B \in Pairs, C \in Pairs, v1 \in Values, v2 \in Values,
             v3 \in Values :
              ( /\ Cardinality({compose_key(A[1], A[2]), compose_key(B[1], B[2]),
                                compose_key(C[1], C[2])}) = 3
                /\ get_idx(compose_key(A[1], A[2])) = get_idx(compose_key(B[1], B[2]))
                /\ get_idx(compose_key(A[1], A[2])) = get_idx(compose_key(C[1], C[2]))
                /\ caches[get_idx(compose_key(A[1], A[2]))].cap = 2 )
              => C5_Scenario(A, B, C, v1, v2, v3)

\* C5 witness: a put of a new key has acted on a full shard of two entries,
\* one of them is gone, and the access log holds all three keys.
C5_Witness ==
    /\ PutFoundShardFull
    /\ Len(pre[LastIdx].list) = 2
    /\ Cardinality(ShardKeys(pre[LastIdx]) \ ShardKeys(caches[LastIdx])) = 1
    /\ Len(accessed) = 3

\* The latest call was a get that hit the least recently used entry (A) of a
\* full shard holding at least two entries.
GetHitOldest ==
    /\ last.op = "get"
    /\ last.ret.val # None
    /\ Len(pre[LastIdx].list) = pre[LastIdx].cap
    /\ Len(pre[LastIdx].list) >= 2
    /\ pre[LastIdx].list[Len(pre[LastIdx].list)].key = LastKey

\* The entry that was next oldest after A when the get began (B).
NextOldest == pre[LastIdx].list[Len(pre[LastIdx].list) - 1].key

\* C6: a get hit promotes: when get(A) hits the oldest entry of a full shard
\* right before a new key C is inserted there, the insertion evicts B, the
\* next oldest, and A stays with its value.
C6_GetPromotes ==
    GetHitOldest =>
        \A C \in Pairs, v \in Values :
            ( /\ get_idx(compose_key(C[1], C[2])) = LastIdx
              /\ compose_key(C[1], C[2]) \notin ShardKeys(caches[LastIdx]) )
            => LET after == PutTo(Now, C, v).caches
               IN /\ ValueOf(after, LastKey) = last.ret.val
                  /\ ValueOf(after, NextOldest) = None
                  /\ ValueOf(after, compose_key(C[1], C[2])) = Some(v)

\* C6 witness: get(A) has hit the oldest entry of a full shard of A and B,
\* and a third key routes to the same shard and is not stored.
C6_Witness ==
    /\ GetHitOldest
    /\ \E C \in Pairs :
          /\ get_idx(compose_key(C[1], C[2])) = LastIdx
          /\ compose_key(C[1], C[2]) \notin ShardKeys(caches[LastIdx])
          /\ ValueOf(PutTo(Now, C, <<1>>).caches, NextOldest) = None

\* C7: contains_key returns true iff the composite key is in its shard, and
\* changes neither contents nor recency order: every later put finds, and
\* leaves, what it would have without the call.
C7_ContainsIsPure ==
    last.op = "contains_key" =>
        /\ last.ret = Ok(LastKey \in ShardKeys(caches[LastIdx]))
        /\ caches = pre
        /\ \A p \in Pairs, v \in Values :
              CacheStorage_put(Now, p[1], p[2], v).caches
                = CacheStorage_put(Store(pre, cache_items), p[1], p[2], v).caches

\* C7 witness: contains_key has returned true for the least recently used
\* entry of a full shard of two, which is still the least recently used.
C7_Witness ==
    /\ last.op = "contains_key"
    /\ last.ret = Ok(TRUE)
    /\ Len(caches[LastIdx].list) = 2
    /\ caches[LastIdx].cap = 2
    /\ caches[LastIdx].list[2].key = LastKey

\* C8: right after remove(ns, key), get(ns, key) = None and
\* contains_key(ns, key) = false; removing an absent key changes nothing and
\* returns Ok.
C8_RemoveThenAbsent ==
    last.op = "remove" =>
        /\ last.ret = Ok(Unit)
        /\ CacheStorage_get(Now, last.ns, last.key).ret = Ok(None)
        /\ CacheStorage_contains_key(Now, last.ns, last.key).ret = Ok(FALSE)
        /\ LastKey \notin StoredKeys(pre) => caches = pre

\* C8 witness: remove has acted on a key that was stored.
C8_Witness ==
    /\ last.op = "remove"
    /\ LastKey \in StoredKeys(pre)
    /\ CacheStorage_get(Now, last.ns, last.key).ret = Ok(None)

\* [(k1, Set(v1)), (k2, Delete), (k1, Set(v2))]
C9_Batch(k1, k2, v1, v2) ==
    << <<k1, [tag |-> "Value", value |-> v1]>>,
       <<k2, [tag |-> "Deletion", value |-> <<>>]>>,
       <<k1, [tag |-> "Value", value |-> v2]>> >>

C9_Scenario(ns, k1, k2, v1, v2) ==
    LET r  == CacheStorage_write_batch(Now, ns, C9_Batch(k1, k2, v1, v2))
        s  == Store(r.caches, r.cache_items)
    IN /\ r.ret = Ok(Unit)
       /\ s = OneByOne(Now, ns, C9_Batch(k1, k2, v1, v2))
       /\ GetOf(s, <<ns, k1>>).ret = Ok(Some(v2))
       /\ GetOf(AfterGet(s, <<ns, k1>>), <<ns, k2>>).ret = Ok(None)

\* C9: write_batch leaves the store (contents, recency order, gauge) as
\* calling put for each Set row and remove for each Delete row, one by one in
\* listed order, leaves it; [(k1, Set(v1)), (k2, Delete), (k1, Set(v2))]
\* yields get(k1) = Some(v2) and get(k2) = None.
C9_BatchFidelity ==
    /\ last.op = "write_batch" => (last.ret = Ok(Unit) /\ replayed = Now)
    /\ \A ns \in Namespaces, k1 \in RawKeys, k2 \in RawKeys,
          v1 \in Values, v2 \in Values :
              k1 # k2 => C9_Scenario(ns, k1, k2, v1, v2)

\* C9 witness: a write_batch has acted and left two entries in one shard, the
\* store is what the one-by-one calls make, and the batch of the scenario
\* finds its k2 stored.
C9_Witness ==
    /\ last.op = "write_batch"
    /\ replayed = Now
    /\ \E idx \in DOMAIN caches : Len(caches[idx].list) = 2
    /\ \E ns \in Namespaces, k1 \in RawKeys, k2 \in RawKeys :
          /\ k1 # k2
          /\ compose_key(ns, k2) \in StoredKeys(caches)
          /\ compose_key(ns, k1) \in StoredKeys(caches)
          /\ C9_Scenario(ns, k1, k2, <<1>>, <<2>>)

\* The (shard, position) places that hold an entry.
Places(cs) == UNION {{<<idx, i>> : i \in 1..Len(cs[idx].list)} : idx \in DOMAIN cs}

\* C10: get_len() is the sum of the shards' entry counts, which is the number
\* of distinct composite keys stored.
C10_LenIsSum ==
    /\ CacheStorage_get_len(Now) = Ok(Cardinality(Places(caches)))
    /\ Cardinality(Places(caches)) = Cardinality(StoredKeys(caches))
    /\ last.op = "get_len" => last.ret = Ok(Cardinality(StoredKeys(caches)))

\* C10 witness: get_len has returned 3 with entries in two shards.
C10_Witness ==
    /\ last.op = "get_len"
    /\ last.ret = Ok(3)
    /\ Cardinality({idx \in DOMAIN caches : Len(caches[idx].list) > 0}) = 2

\* C11: every stored key is in the shard get_idx gives for it now, whatever
\* calls came between its put and now; that shard is one of the shards
\* 0..NUM_SHARDS-1 and no other shard holds the key; a single-key call leaves
\* every shard but the one its key routes to as it found it.
C11_RoutingInvariant ==
    /\ DOMAIN caches = 0..(NUM_SHARDS - 1)
    /\ \A idx \in DOMAIN caches : \A k \in ShardKeys(caches[idx]) :
          /\ get_idx(k) = idx
          /\ \A j \in DOMAIN caches \ {idx} : k \notin ShardKeys(caches[j])
    /\ \A k \in CompKeys : get_idx(k) \in 0..(NUM_SHARDS - 1)
    /\ SingleKeyCall =>
          \A idx \in DOMAIN caches \ {LastIdx} : caches[idx] = pre[idx]

\* C11 witness: three keys are stored, in two shards, and the latest call
\* was a get that hit a key of the last shard.
C11_Witness ==
    /\ Cardinality(StoredKeys(caches)) = 3
    /\ Cardinality({idx \in DOMAIN caches : Len(caches[idx].list) > 0}) = 2
    /\ last.op = "get"
    /\ last.ret.val # None
    /\ LastIdx = NUM_SHARDS - 1
    /\ LastKey \in ShardKeys(caches[NUM_SHARDS - 1])

\* The labels a call enters the timing recorder under when it is wrapped in
\* the recorder once: its own label with a recorder configured, none without.
Once(label) == IF metrics THEN <<label>> ELSE <<>>

\* C15: get and contains_key each enter the timing recorder exactly once,
\* under their own label; write_batch enters it exactly once, under
\* write_batch, however many rows it has; put and remove never enter it; with
\* no recorder nothing is recorded; and every call returns Ok.
C15_InstrumentationAsymmetry ==
    /\ last.op = "write_batch" =>
          (last.recorded = Once("write_batch") /\ last.ret = Ok(Unit))
    /\ \A ns \in Namespaces, key \in RawKeys :
          /\ CacheStorage_get(Now, ns, key).recorded = Once("get")
          /\ CacheStorage_get(Now, ns, key).ret.ok
          /\ CacheStorage_contains_key(Now, ns, key).recorded = Once("contains_key")
          /\ CacheStorage_contains_key(Now, ns, key).ret.ok
          /\ CacheStorage_remove(Now, ns, key).recorded = <<>>
          /\ CacheStorage_remove(Now, ns, key).ret = Ok(Unit)
          /\ \A value \in Values :
                /\ CacheStorage_put(Now, ns, key, value).recorded = <<>>
                /\ CacheStorage_put(Now, ns, key, value).ret = Ok(Unit)

\* C15 witness: with a recorder configured, a write_batch has acted and
\* entered the recorder once, and the store is what a batch of two Value rows
\* makes of the new cache, which also enters the recorder once.
C15_Witness ==
    /\ metrics
    /\ last.op = "write_batch"
    /\ last.recorded = <<"write_batch">>
    /\ \E ns \in Namespaces, k1 \in RawKeys, k2 \in RawKeys, v \in Values :
          LET batch == << <<k1, [tag |-> "Value", value |-> v]>>,
                          <<k2, [tag |-> "Value", value |-> v]>> >>
              r     == CacheStorage_write_batch(Store(pre, 0), ns, batch)
          IN /\ k1 # k2
             /\ r.caches = caches
             /\ r.cache_items = 2
             /\ cache_items = 2
             /\ r.recorded = <<"write_batch">>

\* The keys the latest call removed from the store.
Evicted == StoredKeys(pre) \ StoredKeys(caches)

\* C16: a put evicts only from the shard its key routes to: every other
\* shard is left as the put found it, and whatever left the store was in that
\* shard.  (That the victim can be younger than an entry another shard keeps
\* is the witness.)
C16_EvictsOnlyInOwnShard ==
    last.op = "put" =>
        /\ \A idx \in DOMAIN caches \ {LastIdx} : caches[idx] = pre[idx]
        /\ Evicted \subseteq ShardKeys(pre[LastIdx])
        /\ Cardinality(Evicted) <= 1

\* C16 witness: a put has evicted an entry whose latest access is more recent
\* than that of an entry another shard still holds.
C16_Witness ==
    /\ PutFoundShardFull
    /\ \E e \in Evicted :
          \E idx \in DOMAIN caches \ {LastIdx} :
              \E k \in ShardKeys(caches[idx]) :
                  /\ AccessRank(e) < AccessRank(k)
                  /\ AccessRank(k) <= Len(accessed)

\* The total capacities new() is called with, up to the largest that gives
\* a shard capacity of MaxShardCap.
TotalCapacities == 1..(MaxShardCap * NUM_SHARDS)

\* The shards as new() left them: same capacities, no entries.
Emptied(cs) == [idx \in DOMAIN cs |-> LruCache_new(cs[idx].cap)]

\* The total capacities that new() turns into the shards of this cache.
BuiltWith == {cap \in TotalCapacities : ShardLruCache_new(cap) = Emptied(caches)}

\* C17: for every total_capacity this cache can have been built with, each
\* shard's capacity is ceil(total_capacity / NUM_SHARDS), the least c with
\* NUM_SHARDS * c >= total_capacity, and the entries stored number at most
\* total_capacity + NUM_SHARDS - 1.
C17_CapacityBound ==
    /\ BuiltWith # {}
    /\ \A cap \in BuiltWith :
          /\ \A idx \in DOMAIN caches :
                /\ NUM_SHARDS * caches[idx].cap >= cap
                /\ NUM_SHARDS * (caches[idx].cap - 1) < cap
          /\ ShardLruCache_len(caches) <= cap + (NUM_SHARDS - 1)

\* C17 witness: a put has brought a cache built with total_capacity 1 to
\* 1 + (NUM_SHARDS - 1) entries, more than total_capacity.
C17_Witness ==
    /\ last.op = "put"
    /\ 1 \in BuiltWith
    /\ ShardLruCache_len(caches) = 1 + (NUM_SHARDS - 1)
    /\ Cardinality(StoredKeys(caches)) > 1

\* The latest call was a put of a key its shard, full, already held.
PutOverwroteInFullShard ==
    /\ last.op = "put"
    /\ LastKey \in ShardKeys(pre[LastIdx])
    /\ Len(pre[LastIdx].list) = pre[LastIdx].cap

\* C18: a put of a key already present in a full shard evicts nothing: the
\* shard keeps its keys and their number, every other entry keeps its value
\* and its place behind, the key has the new value and is the most recently
\* used entry (a new key put next does not evict it unless the shard holds
\* one entry only), and the shard's put returns the previous value.
C18_OverwriteEvictsNothing ==
    PutOverwroteInFullShard =>
        LET before == pre[LastIdx].list
            after  == caches[LastIdx].list
            r      == ShardLruCache_put(pre, LastKey, last.value)
        IN /\ r.caches = caches
           /\ r.ret = ValueOf(pre, LastKey)
           /\ r.ret # None
           /\ Len(after) = Len(before)
           /\ ShardKeys(caches[LastIdx]) = ShardKeys(pre[LastIdx])
           /\ \A k \in ShardKeys(pre[LastIdx]) \ {LastKey} :
                 ValueOf(caches, k) = ValueOf(pre, k)
           /\ ValueOf(caches, LastKey) = Some(last.value)
           /\ after[1].key = LastKey
           /\ Tail(after) = RemoveAt(before, IndexOf(before, LastKey))
           /\ Evicted = {}
           /\ \A C \in Pairs, v \in Values :
                 ( /\ get_idx(compose_key(C[1], C[2])) = LastIdx
                   /\ compose_key(C[1], C[2]) \notin ShardKeys(caches[LastIdx])
                   /\ caches[LastIdx].cap > 1 )
                 => ValueOf(PutTo(Now, C, v).caches, LastKey) = Some(last.value)

\* C18 witness: a put has given a new value to the least recently used entry
\* of a full shard of two, and a third key routes to that shard.
C18_Witness ==
    /\ PutOverwroteInFullShard
    /\ pre[LastIdx].cap = 2
    /\ pre[LastIdx].list[2].key = LastKey
    /\ pre[LastIdx].list[2].val # last.value
    /\ caches[LastIdx].list[1] = Entry(LastKey, last.value)
    /\ \E C \in Pairs :
          /\ get_idx(compose_key(C[1], C[2])) = LastIdx
          /\ compose_key(C[1], C[2]) \notin ShardKeys(caches[LastIdx])

\* The (composite key, value) pairs one shard stores.
ShardPairs(c) == {<<c.list[i].key, c.list[i].val>> : i \in 1..Len(c.list)}

ReadOnlyCall == last.op \in {"get", "contains_key", "get_len", "keys"}

\* C20: get, contains_key, get_len and keys leave the pairs every shard
\* stores, and its capacity, unchanged; a get miss also leaves every shard's
\* order unchanged, as do contains_key, get_len and keys; a missing key gives
\* Ok(None) from get and Ok(false) from contains_key; no such call fails.
C20_ReadOnlyFrame ==
    ReadOnlyCall =>
        /\ last.ret.ok
        /\ \A idx \in DOMAIN caches :
              /\ ShardPairs(caches[idx]) = ShardPairs(pre[idx])
              /\ caches[idx].cap = pre[idx].cap
        /\ (last.op = "get" /\ LastKey \notin StoredKeys(pre)) =>
              (last.ret = Ok(None) /\ caches = pre)
        /\ (last.op = "get" /\ LastKey \in StoredKeys(pre)) =>
              last.ret = Ok(ValueOf(pre, LastKey))
        /\ (last.op = "contains_key" /\ LastKey \notin StoredKeys(pre)) =>
              last.ret = Ok(FALSE)
        /\ last.op # "get" => caches = pre

\* C20 witness: a get has hit the least recently used entry of a shard of
\* two: the order of the shard has changed, its pairs have not.
C20_Witness ==
    /\ last.op = "get"
    /\ last.ret.val # None
    /\ Len(pre[LastIdx].list) = 2
    /\ pre[LastIdx].list[2].key = LastKey
    /\ caches[LastIdx].list # pre[LastIdx].list
    /\ ShardPairs(caches[LastIdx]) = ShardPairs(pre[LastIdx])

\* The shards whose Mutex thread t holds.
Held(t) == {idx \in 0..(NUM_SHARDS - 1) : locks[idx] = Some(t)}

\* Thread t runs code of the metrics recorder (before or after the closure it
\* was given) or the setter of the cache_items gauge.
InRecorderOrSetter(t) == threads[t].pc \in {"record", "observe", "set"}

\* C12: in every interleaving a thread holds at most one shard lock at a
\* time, also inside len() and keys() which visit every shard, and holds no
\* shard lock while it runs the metrics recorder or the gauge setter.
C12_LockDiscipline ==
    \A t \in Threads :
        /\ Cardinality(Held(t)) <= 1
        /\ InRecorderOrSetter(t) => Held(t) = {}
        /\ threads[t].pc = "idle" => Held(t) = {}

\* A put that is inside len() at a later shard holds the lock of that shard
\* alone, while the other thread is inside keys() holding another lock.
C12_Witness ==
    \E t, u \in Threads :
        /\ threads[t].op = "put"
        /\ threads[t].pc = "len_locked"
        /\ threads[t].i > 0
        /\ Held(t) = {threads[t].i}
        /\ threads[u].pc = "keys_locked"
        /\ Held(u) = {threads[u].i}
        /\ threads[u].i > threads[t].i

\* ShardLruCache::put or ::pop as write_batch calls it for one of its rows.
RowCall(ns, row) ==
    [op    |-> IF row[2].tag = "Value" THEN "put" ELSE "remove",
     key   |-> compose_key(ns, row[1]),
     value |-> row[2].value]

\* C13: under concurrency the entries of a write_batch take effect in the
\* order the batch lists them: at every moment the shard calls the batch has
\* made are those of a prefix of its rows, in the rows' order, whatever the
\* other callers do in between.
C13_BatchInOrder ==
    \A t \in Threads :
        threads[t].op = "write_batch" /\ threads[t].pc # "idle" =>
            LET f == threads[t] IN
            /\ Len(f.applied) \in {f.row - 1, f.row} \cap 0..Len(f.rows)
            /\ f.pc \in {"record", "lock", "locked"} => Len(f.applied) = f.row - 1
            /\ \A n \in 1..Len(f.applied) : f.applied[n] = RowCall(f.ns, f.rows[n])

\* The batch is not isolated: thread 1 is between the two rows of its batch,
\* the first applied and the second not, and the put another caller began on
\* the key of the first row after the batch began has taken effect, so the
\* cache holds the first row's key under the other caller's value and does not
\* hold the second row's key: a state no run of the batch alone passes through.
C13_Witness ==
    \E u \in Threads \ {1} :
        LET f  == threads[1]
            k1 == compose_key(f.ns, f.rows[1][1])
            k2 == compose_key(f.ns, f.rows[2][1])
        IN /\ f.op = "write_batch"
           /\ Len(f.rows) = 2
           /\ f.pc = "lock"
           /\ f.row = 2
           /\ f.applied = <<RowCall(f.ns, f.rows[1])>>
           /\ f.rows[1][2].tag = "Value"
           /\ f.rows[2][2].tag = "Value"
           /\ k1 # k2
           /\ threads[u].op = "put"
           /\ threads[u].pc = "idle"
           /\ threads[u].calls = 1
           /\ ShardLruCache_contains(caches, k1)
           /\ LruCache_get(caches[get_idx(k1)], k1).ret = Some(ThreadValue(u))
           /\ ~ShardLruCache_contains(caches, k2)

\* No call is in progress on any thread.
Quiescent == \A t \in Threads : threads[t].pc = "idle"

\* Some thread has finished a put or a remove.
MutationCompleted ==
    \E t \in Threads : threads[t].op \in {"put", "remove"} /\ threads[t].calls > 0

\* C14: with a recorder configured, whenever no operation is in flight and a
\* put or remove has completed, the cache_items gauge equals get_len(), also
\* when the puts and removes came concurrently from several threads.
C14_GaugeAtQuiescence ==
    metrics /\ Quiescent /\ MutationCompleted =>
        cache_items = ShardLruCache_len(caches)

\* C19: with the threads calling get, put, remove, contains_key, write_batch,
\* get_len and keys concurrently, and lock acquisition fair, every call that
\* was invoked returns: from some moment on no call is in progress.  A
\* reachable deadlock, threads in a call and none of them able to step, would
\* be a fair behaviour in which that moment never comes.
C19_EveryCallReturns == <>[](\A t \in Threads : threads[t].pc = "idle")

\* A thread inside write_batch waits at lock() for a shard whose Mutex
\* another thread holds inside keys().
C19_Witness ==
    \E t, u \in Threads :
        /\ t # u
        /\ threads[t].op = "write_batch"
        /\ threads[t].pc = "lock"
        /\ threads[u].pc = "keys_locked"
        /\ locks[get_idx(Composite(threads[t]))] = Some(u)

====
